---- MODULE Spec2Model ----
(***************************************************************************)
(* RequestMultiplexer (node/network/bridge/src/multiplexer.rs): the merge  *)
(* of the per-protocol incoming-request channels into one stream, the two  *)
(* withheld receivers, and the construction from the protocol enumeration. *)
(***************************************************************************)
EXTENDS Integers, Sequences, FiniteSets, TLC

\* ------------------------------------------------------------------ bounds
\* Largest number of pooled (non-withheld) protocols of a running multiplexer.
MaxPool == 2
\* Total number of requests the transport pushes in one behaviour.
MaxPush == 3
\* poll_next is called while the cursor is below this value.
MaxCursor == 4
\* Longest protocol enumeration handed to construction.
MaxEnum == 4
\* Number of calls of each take operation that are counted.
MaxTake == 3

\* ------------------------------------------------------------- protocols
Pooled == <<"ChunkFetching", "CollationFetching", "PoVFetching", "AvailableDataFetching">>

Withheld == <<"StatementFetching", "DisputeSending">>

Protocols == {Pooled[i] : i \in 1..Len(Pooled)} \cup {Withheld[i] : i \in 1..Len(Withheld)}

\* The remote peers and the payloads the transport delivers.
Peers == {1, 2}

Payloads == {<< >>, <<1>>}

\* ---------------------------------------------------------- mpsc receiver
\* futures::channel::mpsc::Receiver as the multiplexer sees it: the buffered
\* requests, whether a sender is still alive, whether the receiver still holds
\* its channel (inner, None once end-of-stream was returned), and whether the
\* consumer's waker is registered with it.  chan names the protocol whose
\* get_config created the channel.
FreshRx(p) == [chan |-> p, queue |-> << >>, open |-> TRUE, inner |-> TRUE, waker |-> FALSE]

RxIsTerminated(rx) == ~rx.inner

NoRequest == [payload |-> << >>, peer |-> 0, pending_response |-> <<0, 0>>]

\* Mutant: the receiver hands out the newest buffered request first.
RxPollNext_Lifo(rx) ==
  IF ~rx.inner
    THEN [poll |-> "Panic", v |-> NoRequest, rx |-> rx]
    ELSE IF rx.queue # << >>
      THEN [poll |-> "Some", v |-> rx.queue[Len(rx.queue)],
            rx |-> [rx EXCEPT !.queue = SubSeq(@, 1, Len(@) - 1)]]
      ELSE IF ~rx.open
        THEN [poll |-> "None", v |-> NoRequest, rx |-> [rx EXCEPT !.inner = FALSE]]
        ELSE [poll |-> "Pending", v |-> NoRequest, rx |-> [rx EXCEPT !.waker = TRUE]]

\* Receiver::poll_next: the buffered head if any; end-of-stream (and inner
\* cleared) when closed and drained; otherwise the waker is registered and the
\* poll is pending.  Polling a receiver that already returned end-of-stream is
\* the panic the multiplexer's is_terminated check is there to avoid.
RxPollNext(rx) ==
  IF ~rx.inner
    THEN [poll |-> "Panic", v |-> NoRequest, rx |-> rx]
    ELSE IF rx.queue # << >>
      THEN [poll |-> "Some", v |-> Head(rx.queue), rx |-> [rx EXCEPT !.queue = Tail(@)]]
      ELSE IF ~rx.open
        THEN [poll |-> "None", v |-> NoRequest, rx |-> [rx EXCEPT !.inner = FALSE]]
        ELSE [poll |-> "Pending", v |-> NoRequest, rx |-> [rx EXCEPT !.waker = TRUE]]

\* ------------------------------------------------------------- decoding
\* Req::decode on the payload bytes: fails on input that is too short.
ReqDecode(payload) ==
  IF Len(payload) >= 1
    THEN [ok |-> TRUE, req |-> Head(payload), error |-> "-"]
    ELSE [ok |-> FALSE, req |-> 0, error |-> "eof"]

\* Mutant: the error is attributed to a default peer, not to the sender.
decode_with_peer_DefaultPeer(peer, payload) ==
  LET d == ReqDecode(payload)
  IN IF d.ok THEN [ok |-> TRUE, req |-> d.req, peer |-> 0, error |-> "-"]
              ELSE [ok |-> FALSE, req |-> 0, peer |-> 0, error |-> d.error]

decode_with_peer(peer, payload) ==
  LET d == ReqDecode(payload)
  IN IF d.ok THEN [ok |-> TRUE, req |-> d.req, peer |-> 0, error |-> "-"]
              ELSE [ok |-> FALSE, req |-> 0, peer |-> peer, error |-> d.error]

\* A stream item: Ok(AllMessages) carrying protocol, peer, request and reply
\* sink, or Err(RequestMultiplexError) carrying peer and error.  unreachable is
\* set when a withheld protocol reaches the decode step.
NoItem ==
  [ok |-> FALSE, protocol |-> "-", peer |-> 0, req |-> 0, pending_response |-> <<0, 0>>,
   error |-> "-", unreachable |-> FALSE]

\* Mutant: the error keeps the reply sink of the failed request.
multiplex_single_KeepSinkOnError(p, v) ==
  IF p \in {Withheld[i] : i \in 1..Len(Withheld)}
    THEN [NoItem EXCEPT !.protocol = p, !.unreachable = TRUE]
    ELSE LET d == decode_with_peer(v.peer, v.payload)
         IN IF d.ok
              THEN [NoItem EXCEPT !.ok = TRUE, !.protocol = p, !.peer = v.peer,
                                  !.req = d.req, !.pending_response = v.pending_response]
              ELSE [NoItem EXCEPT !.peer = d.peer, !.error = d.error,
                                  !.pending_response = v.pending_response]

multiplex_single(p, v) ==
  IF p \in {Withheld[i] : i \in 1..Len(Withheld)}
    THEN [NoItem EXCEPT !.protocol = p, !.unreachable = TRUE]
    ELSE LET d == decode_with_peer(v.peer, v.payload)
         IN IF d.ok
              THEN [NoItem EXCEPT !.ok = TRUE, !.protocol = p, !.peer = v.peer,
                                  !.req = d.req, !.pending_response = v.pending_response]
              ELSE [NoItem EXCEPT !.peer = d.peer, !.error = d.error]

\* --------------------------------------------------------- construction
NoneRx == [some |-> FALSE, rx |-> FreshRx("-")]

SomeRx(rx) == [some |-> TRUE, rx |-> rx]

\* Protocol::get_config: a fresh channel, its receiver and its configuration.
get_config(p) == [rx |-> FreshRx(p), cfg |-> [name |-> p]]

\* iter().enumerate().find_map: the first index holding protocol p, 0 if none.
FindIndex(rs, p) ==
  LET hits == {i \in 1..Len(rs) : rs[i].p = p}
  IN IF hits = {} THEN 0 ELSE CHOOSE i \in hits : \A j \in hits : i <= j

\* Mutant: Vec::swap_remove, which moves the last element into the gap.
Remove_Swap(rs, index) ==
  [i \in 1..(Len(rs) - 1) |-> IF i = index THEN rs[Len(rs)] ELSE rs[i]]

\* Vec::remove
Remove(rs, index) == [i \in 1..(Len(rs) - 1) |-> IF i < index THEN rs[i] ELSE rs[i + 1]]

\* Mutant: the configurations are collected after the withheld entries are removed.
Configs_PooledOnly(protocols) ==
  LET kept == SelectSeq(protocols, LAMBDA t : t \notin {Withheld[i] : i \in 1..Len(Withheld)})
  IN [i \in 1..Len(kept) |-> get_config(kept[i]).cfg]

\* The configuration half of the unzip: one per protocol, in iteration order.
Configs(protocols) == [i \in 1..Len(protocols) |-> get_config(protocols[i]).cfg]

NewFailed ==
  [ok |-> FALSE, receivers |-> << >>, statement_fetching |-> NoneRx,
   dispute_sending |-> NoneRx, next_poll |-> 0, cfgs |-> << >>]

\* Mutant: only the first expect is fatal; without a dispute-sending entry the
\* multiplexer is built with that slot empty.
new_DisputeOptional(protocols) ==
  LET all == [i \in 1..Len(protocols) |-> [p |-> protocols[i], rx |-> get_config(protocols[i]).rx]]
      index1 == FindIndex(all, "StatementFetching")
  IN IF index1 = 0 THEN NewFailed
     ELSE LET r1 == Remove(all, index1)
              index2 == FindIndex(r1, "DisputeSending")
          IN [ok |-> TRUE,
              receivers |-> IF index2 = 0 THEN r1 ELSE Remove(r1, index2),
              statement_fetching |-> SomeRx(all[index1].rx),
              dispute_sending |-> IF index2 = 0 THEN NoneRx ELSE SomeRx(r1[index2].rx),
              next_poll |-> 0,
              cfgs |-> Configs(protocols)]

\* Mutant: the dispute-sending receiver is handed out but its entry stays in
\* the pool.
new_DisputeLeftInPool(protocols) ==
  LET all == [i \in 1..Len(protocols) |-> [p |-> protocols[i], rx |-> get_config(protocols[i]).rx]]
      index1 == FindIndex(all, "StatementFetching")
  IN IF index1 = 0 THEN NewFailed
     ELSE LET r1 == Remove(all, index1)
              index2 == FindIndex(r1, "DisputeSending")
          IN IF index2 = 0 THEN NewFailed
             ELSE [ok |-> TRUE,
                   receivers |-> r1,
                   statement_fetching |-> SomeRx(all[index1].rx),
                   dispute_sending |-> SomeRx(r1[index2].rx),
                   next_poll |-> 0,
                   cfgs |-> Configs(protocols)]

new(protocols) ==
  LET all == [i \in 1..Len(protocols) |-> [p |-> protocols[i], rx |-> get_config(protocols[i]).rx]]
      cfgs0 == Configs(protocols)
      index1 == FindIndex(all, "StatementFetching")
  IN IF index1 = 0 THEN NewFailed
     ELSE LET r1 == Remove(all, index1)
              index2 == FindIndex(r1, "DisputeSending")
          IN IF index2 = 0 THEN NewFailed
             ELSE [ok |-> TRUE,
                   receivers |-> Remove(r1, index2),
                   statement_fetching |-> SomeRx(all[index1].rx),
                   dispute_sending |-> SomeRx(r1[index2].rx),
                   next_poll |-> 0,
                   cfgs |-> cfgs0]

\* ------------------------------------------------------------ poll_next
Poll(kind, item) == [kind |-> kind, item |-> item]

\* Mutants of the while loop, by name: "NoTerminatedCheck" polls without asking
\* is_terminated first; "ContinueAfterNone" goes on scanning after a receiver
\* reported end-of-stream; "StoreOnEnd" writes the cursor back on that return;
\* "NoBreak" goes on scanning after a receiver yielded a request.
RECURSIVE PollLoopVariant(_, _, _, _, _, _)
PollLoopVariant(rs, np, i, count, result, variant) ==
  IF count > 0
    THEN LET len == Len(rs)
             idx == (i % len) + 1
             rx == rs[idx].rx
         IN IF variant # "NoTerminatedCheck" /\ RxIsTerminated(rx)
              THEN [receivers |-> rs, next_poll |-> np, result |-> Poll("None", NoItem), from |-> 0,
                    polled |-> i - np]
              ELSE LET r == RxPollNext(rx)
                       rs2 == [rs EXCEPT ![idx].rx = r.rx]
                   IN CASE r.poll = "Pending" ->
                             PollLoopVariant(rs2, np, i + 1, count - 1,
                                             Poll("Pending", NoItem), variant)
                        [] r.poll = "None" ->
                             IF variant = "ContinueAfterNone"
                               THEN PollLoopVariant(rs2, np, i + 1, count - 1,
                                                    Poll("None", NoItem), variant)
                               ELSE [receivers |-> rs2,
                                     next_poll |-> IF variant = "StoreOnEnd" THEN i + 1 ELSE np,
                                     result |-> Poll("None", NoItem), from |-> 0, polled |-> i + 1 - np]
                        [] r.poll = "Panic" ->
                             [receivers |-> rs2, next_poll |-> np,
                              result |-> Poll("Panic", NoItem), from |-> 0, polled |-> i + 1 - np]
                        [] OTHER ->
                             IF variant = "NoBreak"
                               THEN PollLoopVariant(rs2, np, i + 1, count - 1,
                                      Poll("Some", multiplex_single(rs[idx].p, r.v)), variant)
                               ELSE [receivers |-> rs2, next_poll |-> i + 1,
                                     result |-> Poll("Some", multiplex_single(rs[idx].p, r.v)),
                                     from |-> idx, polled |-> i + 1 - np]
    ELSE [receivers |-> rs, next_poll |-> i, result |-> result, from |-> 0,
          polled |-> i - np]

PollLoop_NoBreak(rs, np, i, count, result) ==
  PollLoopVariant(rs, np, i, count, result, "NoBreak")

PollLoop_NoTerminatedCheck(rs, np, i, count, result) ==
  PollLoopVariant(rs, np, i, count, result, "NoTerminatedCheck")

PollLoop_ContinueAfterNone(rs, np, i, count, result) ==
  PollLoopVariant(rs, np, i, count, result, "ContinueAfterNone")

PollLoop_StoreOnEnd(rs, np, i, count, result) ==
  PollLoopVariant(rs, np, i, count, result, "StoreOnEnd")

\* The while loop of poll_next: i and count are the loop's locals, np is
\* self.next_poll at entry, result the local result; polled is the number of
\* receivers the call polled, the increments of i.  A panic of the polled
\* receiver ends the call with the result "Panic".
RECURSIVE PollLoop(_, _, _, _, _)
PollLoop(rs, np, i, count, result) ==
  IF count > 0
    THEN LET len == Len(rs)
             idx == (i % len) + 1
             rx == rs[idx].rx
         IN IF RxIsTerminated(rx)
              THEN [receivers |-> rs, next_poll |-> np, result |-> Poll("None", NoItem), from |-> 0,
                    polled |-> i - np]
              ELSE LET r == RxPollNext(rx)
                       rs2 == [rs EXCEPT ![idx].rx = r.rx]
                   IN CASE r.poll = "Pending" ->
                             PollLoop(rs2, np, i + 1, count - 1, Poll("Pending", NoItem))
                        [] r.poll = "None" ->
                             [receivers |-> rs2, next_poll |-> np,
                              result |-> Poll("None", NoItem), from |-> 0, polled |-> i + 1 - np]
                        [] r.poll = "Panic" ->
                             [receivers |-> rs2, next_poll |-> np,
                              result |-> Poll("Panic", NoItem), from |-> 0, polled |-> i + 1 - np]
                        [] OTHER ->
                             [receivers |-> rs2, next_poll |-> i + 1,
                              result |-> Poll("Some", multiplex_single(rs[idx].p, r.v)),
                              from |-> idx, polled |-> i + 1 - np]
    ELSE [receivers |-> rs, next_poll |-> i, result |-> result, from |-> 0,
          polled |-> i - np]

\* Mutant: self.next_poll is never written back.
poll_next_CursorNotStored(rs, np) ==
  [PollLoop(rs, np, np, Len(rs), Poll("None", NoItem)) EXCEPT !.next_poll = np]

\* Mutant: the local result starts as Poll::Pending.
poll_next_InitiallyPending(rs, np) == PollLoop(rs, np, np, Len(rs), Poll("Pending", NoItem))

\* Mutant: the cursor is left on the producing channel.
poll_next_CursorAtProducer(rs, np) ==
  LET r == PollLoop(rs, np, np, Len(rs), Poll("None", NoItem))
  IN IF r.result.kind = "Some" THEN [r EXCEPT !.next_poll = @ - 1] ELSE r

\* Mutant: a call that ends the stream moves the cursor to the next channel.
poll_next_AdvanceOnEnd(rs, np) ==
  LET r == PollLoop(rs, np, np, Len(rs), Poll("None", NoItem))
  IN IF r.result.kind = "None" /\ Len(rs) > 0 THEN [r EXCEPT !.next_poll = np + 1] ELSE r

\* Mutant: the cursor is stored reduced modulo the pool size.
poll_next_CursorWrapped(rs, np) ==
  LET r == PollLoop(rs, np, np, Len(rs), Poll("None", NoItem))
  IN IF Len(rs) > 0 THEN [r EXCEPT !.next_poll = @ % Len(rs)] ELSE r

\* Mutant: count starts at one, so a call polls a single channel.
poll_next_SingleChannel(rs, np) ==
  PollLoop(rs, np, np, IF Len(rs) = 0 THEN 0 ELSE 1, Poll("None", NoItem))

poll_next(rs, np) == PollLoop(rs, np, np, Len(rs), Poll("None", NoItem))

\* Mutant: terminated as soon as any pooled receiver is terminated.
is_terminated_AnyReceiver(rs, np) ==
  Len(rs) = 0 \/ \E c \in 1..Len(rs) : RxIsTerminated(rs[c].rx)

\* FusedStream::is_terminated
is_terminated(rs, np) ==
  IF Len(rs) = 0 THEN TRUE ELSE RxIsTerminated(rs[(np % Len(rs)) + 1].rx)

\* ------------------------------------------------------------------ state
VARIABLES
  pc,                  \* "start" before construction, then "running" or "panicked"
  enumeration,         \* Protocol::iter()
  cfgs,                \* the configurations new() returned
  receivers,           \* self.receivers
  statement_fetching,  \* self.statement_fetching
  dispute_sending,     \* self.dispute_sending
  next_poll,           \* self.next_poll
  result,              \* what the last poll_next call returned
  consumer,            \* "running", or "suspended" after a pending poll until woken
  pushed,              \* per pooled channel: requests pushed so far
  ended,               \* a poll_next call has returned end-of-stream
  skipped,             \* per pooled channel: consecutive productions that passed it over
                       \* while it had a request buffered or its closure to report
  taken                \* per take operation: calls so far and what the last returned

vars ==
  <<pc, enumeration, cfgs, receivers, statement_fetching, dispute_sending, next_poll,
    result, consumer, pushed, ended, skipped, taken>>

N == Len(receivers)

RECURSIVE Sum(_, _)
Sum(f, n) == IF n = 0 THEN 0 ELSE f[n] + Sum(f, n - 1)

\* Requests pushed so far, over all pooled channels.
pushes == Sum(pushed, Len(pushed))

NoCall == [calls |-> 0, ret |-> "-"]

\* The state new() leaves behind for the enumeration, and the bookkeeping.
Constructed(protocols) ==
  LET m == new(protocols)
  IN /\ pc = IF m.ok THEN "running" ELSE "panicked"
     /\ enumeration = protocols
     /\ cfgs = m.cfgs
     /\ receivers = m.receivers
     /\ statement_fetching = m.statement_fetching
     /\ dispute_sending = m.dispute_sending
     /\ next_poll = m.next_poll
     /\ result = Poll("-", NoItem)
     /\ consumer = "running"
     /\ pushed = [c \in 1..Len(m.receivers) |-> 0]
     /\ ended = FALSE
     /\ skipped = [c \in 1..Len(m.receivers) |-> 0]
     /\ taken = [statement_fetching |-> NoCall, dispute_sending |-> NoCall]

\* The enumerations of the running system: the first n pooled protocols followed
\* by the two withheld ones.
Registry(n) == SubSeq(Pooled, 1, n) \o Withheld

Init == \E n \in 0..MaxPool : n <= Len(Pooled) /\ Constructed(Registry(n))

\* ---------------------------------------------------------------- actions
\* The transport pushes a request into pooled channel c.
Push(c, peer, payload) ==
  /\ pc = "running"
  /\ pushes < MaxPush
  /\ receivers[c].rx.open
  /\ LET req == [payload |-> payload, peer |-> peer, pending_response |-> <<c, pushed[c] + 1>>]
     IN receivers' = [receivers EXCEPT ![c].rx.queue = Append(@, req), ![c].rx.waker = FALSE]
  /\ consumer' = IF receivers[c].rx.waker THEN "running" ELSE consumer
  /\ pushed' = [pushed EXCEPT ![c] = @ + 1]
  /\ UNCHANGED <<pc, enumeration, cfgs, statement_fetching, dispute_sending, next_poll,
                 result, ended, skipped, taken>>

\* The last sender of pooled channel c is dropped.
Close(c) ==
  /\ pc = "running"
  /\ receivers[c].rx.open
  /\ receivers' = [receivers EXCEPT ![c].rx.open = FALSE, ![c].rx.waker = FALSE]
  /\ consumer' = IF receivers[c].rx.waker THEN "running" ELSE consumer
  /\ UNCHANGED <<pc, enumeration, cfgs, statement_fetching, dispute_sending, next_poll,
                 result, pushed, ended, skipped, taken>>

\* The consumer calls poll_next.
PollNext ==
  /\ pc = "running"
  /\ next_poll < MaxCursor
  /\ LET r == poll_next(receivers, next_poll)
     IN /\ receivers' = r.receivers
        /\ next_poll' = r.next_poll
        /\ result' = r.result
        /\ consumer' = IF r.result.kind = "Pending" THEN "suspended" ELSE "running"
        /\ ended' = (ended \/ r.result.kind = "None")
        /\ skipped' = IF r.result.kind = "Some"
                        THEN [c \in 1..N |->
                                IF /\ c # r.from
                                   /\ (receivers[c].rx.queue # << >> \/ ~receivers[c].rx.open)
                                  THEN skipped[c] + 1 ELSE 0]
                        ELSE skipped
  /\ UNCHANGED <<pc, enumeration, cfgs, statement_fetching, dispute_sending, pushed, taken>>

Next ==
  \/ \E c \in 1..N, peer \in Peers, payload \in Payloads : Push(c, peer, payload)
  \/ \E c \in 1..N : Close(c)
  \/ PollNext

Spec == Init /\ [][Next]_vars

\* ------------------------------------------- construction and hand-off
\* std::mem::take on an Option: what is returned, and what is left behind.
\* Mutant: the slot is cloned, not taken.
get_statement_fetching_Clone(slot) == [ret |-> slot, statement_fetching |-> slot]

get_statement_fetching(slot) == [ret |-> slot, statement_fetching |-> NoneRx]

get_dispute_sending(slot) == [ret |-> slot, dispute_sending |-> NoneRx]

\* The protocol enumerations construction is tried on: every sequence of
\* distinct protocols of at most MaxEnum entries.
Enumerations ==
  {e \in UNION {[1..n -> Protocols] : n \in 0..MaxEnum} :
     \A i, j \in 1..Len(e) : e[i] = e[j] => i = j}

InitNew ==
  /\ pc = "start"
  /\ enumeration \in Enumerations
  /\ cfgs = << >>
  /\ receivers = << >>
  /\ statement_fetching = NoneRx
  /\ dispute_sending = NoneRx
  /\ next_poll = 0
  /\ result = Poll("-", NoItem)
  /\ consumer = "running"
  /\ pushed = << >>
  /\ ended = FALSE
  /\ skipped = << >>
  /\ taken = [statement_fetching |-> NoCall, dispute_sending |-> NoCall]

\* RequestMultiplexer::new() on the enumeration; a failed expect panics.
New ==
  /\ pc = "start"
  /\ LET m == new(enumeration)
     IN /\ pc' = IF m.ok THEN "running" ELSE "panicked"
        /\ cfgs' = m.cfgs
        /\ receivers' = m.receivers
        /\ statement_fetching' = m.statement_fetching
        /\ dispute_sending' = m.dispute_sending
        /\ next_poll' = m.next_poll
        /\ pushed' = [c \in 1..Len(m.receivers) |-> 0]
        /\ skipped' = [c \in 1..Len(m.receivers) |-> 0]
  /\ UNCHANGED <<enumeration, result, consumer, ended, taken>>

Returned(slot) == IF slot.some THEN slot.rx.chan ELSE "None"

GetStatementFetching ==
  /\ pc = "running"
  /\ taken.statement_fetching.calls < MaxTake
  /\ LET r == get_statement_fetching(statement_fetching)
     IN /\ statement_fetching' = r.statement_fetching
        /\ taken' = [taken EXCEPT !.statement_fetching =
                                    [calls |-> @.calls + 1, ret |-> Returned(r.ret)]]
  /\ UNCHANGED <<pc, enumeration, cfgs, receivers, dispute_sending, next_poll, result,
                 consumer, pushed, ended, skipped>>

GetDisputeSending ==
  /\ pc = "running"
  /\ taken.dispute_sending.calls < MaxTake
  /\ LET r == get_dispute_sending(dispute_sending)
     IN /\ dispute_sending' = r.dispute_sending
        /\ taken' = [taken EXCEPT !.dispute_sending =
                                    [calls |-> @.calls + 1, ret |-> Returned(r.ret)]]
  /\ UNCHANGED <<pc, enumeration, cfgs, receivers, statement_fetching, next_poll, result,
                 consumer, pushed, ended, skipped>>

\* Construction, the hand-off of the withheld receivers, and the merge polled
\* while the transport delivers nothing and drops senders.
NextNew ==
  \/ New
  \/ GetStatementFetching
  \/ GetDisputeSending
  \/ PollNext
  \/ \E c \in 1..N : Close(c)

SpecNew == InitNew /\ [][NextNew]_vars

\* ------------------------------------------------ withheld channel traffic
\* Requests buffered in the withheld channels whose receivers the multiplexer
\* still holds.
withheldBuffered == Len(statement_fetching.rx.queue) + Len(dispute_sending.rx.queue)

\* The receiver after the transport sent req on channel p: every receiver of
\* that channel buffers it and its registered task is woken.
Deliver(rx, p, req) ==
  IF rx.chan = p THEN [rx EXCEPT !.queue = Append(@, req), !.waker = FALSE] ELSE rx

\* The transport pushes a request into the channel of withheld protocol p.
PushWithheld(p, peer, payload) ==
  /\ pc = "running"
  /\ pushes + withheldBuffered < MaxPush
  /\ LET req == [payload |-> payload, peer |-> peer,
                 pending_response |-> <<0, withheldBuffered + 1>>]
     IN /\ statement_fetching' = [statement_fetching EXCEPT !.rx = Deliver(@, p, req)]
        /\ dispute_sending' = [dispute_sending EXCEPT !.rx = Deliver(@, p, req)]
        /\ receivers' = [c \in 1..N |-> [receivers[c] EXCEPT !.rx = Deliver(@, p, req)]]
        /\ consumer' = IF \E c \in 1..N : receivers[c].rx.chan = p /\ receivers[c].rx.waker
                         THEN "running" ELSE consumer
  /\ UNCHANGED <<pc, enumeration, cfgs, next_poll, result, pushed, ended, skipped, taken>>

\* The merge with traffic on the withheld channels as well; MaxPush bounds the
\* requests sent on pooled and withheld channels together.  The merge never
\* looks into a withheld request, so one request value stands for all.
NextWithheld ==
  \/ \E c \in 1..N, peer \in Peers, payload \in Payloads :
       pushes + withheldBuffered < MaxPush /\ Push(c, peer, payload)
  \/ \E c \in 1..N : Close(c)
  \/ PollNext
  \/ \E i \in 1..Len(Withheld) : PushWithheld(Withheld[i], 1, <<1>>)

SpecWithheld == Init /\ [][NextWithheld]_vars

\* ------------------------------------- withheld channels and their owner
\* The last sender of protocol p's channel is dropped, seen by receiver rx.
Hangup(rx, p) ==
  IF rx.chan = p THEN [rx EXCEPT !.open = FALSE, !.waker = FALSE] ELSE rx

\* The transport drops the last sender of withheld protocol p.  The receiver
\* is affected wherever the multiplexer holds it; once taken it belongs to
\* the caller.
CloseWithheld(p) ==
  /\ pc = "running"
  /\ statement_fetching' = [statement_fetching EXCEPT !.rx = Hangup(@, p)]
  /\ dispute_sending' = [dispute_sending EXCEPT !.rx = Hangup(@, p)]
  /\ receivers' = [c \in 1..N |-> [receivers[c] EXCEPT !.rx = Hangup(@, p)]]
  /\ consumer' = IF \E c \in 1..N : receivers[c].rx.chan = p /\ receivers[c].rx.waker
                   THEN "running" ELSE consumer
  /\ UNCHANGED <<pc, enumeration, cfgs, next_poll, result, pushed, ended, skipped, taken>>

takes == taken.statement_fetching.calls + taken.dispute_sending.calls

\* Pushes still buffered or delivered, and take calls, counted together.
events == pushes + withheldBuffered + takes

\* The merge, the transport on pooled and withheld channels, and the caller
\* taking the withheld receivers; pushes and takes share one budget.
NextOwner ==
  \/ \E c \in 1..N : events < MaxPush /\ Push(c, 1, <<1>>)
  \/ \E c \in 1..N : Close(c)
  \/ PollNext
  \/ \E i \in 1..Len(Withheld) : events < MaxPush /\ PushWithheld(Withheld[i], 2, << >>)
  \/ \E i \in 1..Len(Withheld) : CloseWithheld(Withheld[i])
  \/ events < MaxPush /\ GetStatementFetching
  \/ events < MaxPush /\ GetDisputeSending

SpecOwner == Init /\ [][NextOwner]_vars

\* ------------------------------------------------ the merge kept running
\* No pooled channel is closed, and the consumer calls poll_next again
\* whenever it is runnable: after an item, or after a wake-up.  What a request
\* holds has no part in the scan, so one well-formed request value is pushed.
NextLive ==
  \/ \E c \in 1..N : Push(c, 1, <<1>>)
  \/ PollNext

SpecLive == Init /\ [][NextLive]_vars /\ WF_vars(consumer = "running" /\ PollNext)

\* ------------------------------------------------------ claim vocabulary
Queue(c) == receivers[c].rx.queue

AllOpen == \A c \in 1..N : receivers[c].rx.open

\* Channel c is closed with nothing buffered.
ClosedEmpty(c) == ~receivers[c].rx.open /\ Queue(c) = << >>

\* The channel the cursor designates.
AtCursor == (next_poll % N) + 1

\* ------------------------------------------------------------------- C1
\* C1: once a poll_next call has returned end-of-stream, every later poll_next
\* call returns end-of-stream too, whatever pushes and closures come between.
C1_EndIsPermanent == ended => result.kind = "None"

\* ------------------------------------------------------------------- C2
\* C2: once a poll_next call has returned end-of-stream, is_terminated() is
\* true in every later state.
C2_TerminatedAfterEnd == ended => is_terminated(receivers, next_poll)

\* ------------------------------------------------------------------- C3
\* C3: when one pooled channel is closed and drained while every other pooled
\* channel holds buffered items, the next poll_next call returns end-of-stream
\* and is_terminated() is true after it, wherever the cursor stands.
C3_CloseEndsStream ==
  [][(/\ PollNext
      /\ \E c \in 1..N : ClosedEmpty(c) /\ \A d \in 1..N \ {c} : Queue(d) # << >>)
       => (result'.kind = "None" /\ is_terminated(receivers', next_poll'))]_vars

\* ------------------------------------------------------------------- C4
\* C4 as stated: is_terminated() is true exactly when the next poll_next call,
\* made with no channel event in between, returns end-of-stream.
C4_TerminatedIffEnd ==
  [][PollNext => (is_terminated(receivers, next_poll) <=> result'.kind = "None")]_vars

\* C4 amended: whenever is_terminated() is true, the next poll_next call returns
\* end-of-stream (a false answer promises nothing).
C4_TerminatedImpliesEnd ==
  [][(PollNext /\ is_terminated(receivers, next_poll)) => result'.kind = "None"]_vars

\* A poll_next call has returned end-of-stream with is_terminated() true while
\* another pooled channel still holds a buffered request.
C4_Witness ==
  /\ N >= 2
  /\ result.kind = "None"
  /\ is_terminated(receivers, next_poll)
  /\ \E d \in 1..N : Queue(d) # << >>

\* ------------------------------------------------------------------- C5
\* C5: while all N pooled channels are open, a channel that holds a ready item
\* is passed over by at most N-1 consecutive item-producing poll_next calls.
C5_StarvationBound == AllOpen => \A c \in 1..N : skipped[c] <= N - 1

\* A channel has been passed over N-1 times in a row (N >= 2) and still waits.
C5_Witness ==
  /\ N >= 2
  /\ AllOpen
  /\ \E c \in 1..N : skipped[c] = N - 1 /\ Queue(c) # << >>

\* ------------------------------------------------------------------- C6
\* All senders alive, cursor at k, the first k pooled channels drained and each
\* of the others holding exactly one item: the state k calls after a fresh
\* multiplexer was given one item per channel.
OneEachFrom(k) ==
  /\ AllOpen
  /\ next_poll = k
  /\ \A c \in 1..N : Len(Queue(c)) = IF c <= k THEN 0 ELSE 1

\* C6: from a fresh multiplexer whose pooled channels hold one item each,
\* successive poll_next calls return the items in pool order, one per call, and
\* the call after the last item is pending, not end-of-stream.
C6_OneEachInPoolOrder ==
  [][\A k \in 0..N :
       (N >= 1 /\ PollNext /\ OneEachFrom(k)) =>
         IF k < N
           THEN /\ result' = Poll("Some", multiplex_single(receivers[k + 1].p, Head(Queue(k + 1))))
                /\ next_poll' = k + 1
                /\ \A c \in 1..N : Len(receivers'[c].rx.queue) = IF c <= k + 1 THEN 0 ELSE 1
           ELSE result'.kind = "Pending"]_vars

\* One push per channel, N >= 2 items produced with the cursor moving by one
\* each, then a full pending scan.
C6_Witness ==
  /\ N >= 2
  /\ AllOpen
  /\ \A c \in 1..N : pushed[c] = 1 /\ Queue(c) = << >>
  /\ next_poll = 2 * N
  /\ result.kind = "Pending"

\* ------------------------------------------------------------------- C7
\* Channel c holds exactly one request, every other pooled channel is empty and
\* all senders are alive.
OnlyItemIn(c) ==
  /\ AllOpen
  /\ \A d \in 1..N : Len(Queue(d)) = IF d = c THEN 1 ELSE 0

\* C7: a poll_next call is pending only if that call polled every pooled
\* channel and found it open and empty, leaving a waker on each; a push while
\* the consumer is suspended resumes it, and the next call produces the item.
C7_NoLostWakeup ==
  [][/\ (PollNext /\ result'.kind = "Pending") =>
          /\ next_poll' = next_poll + N
          /\ \A c \in 1..N : /\ Queue(c) = << >>
                             /\ receivers[c].rx.open
                             /\ receivers'[c].rx.waker
     /\ \A c \in 1..N, peer \in Peers, payload \in Payloads :
          (consumer = "suspended" /\ Push(c, peer, payload)) => consumer' = "running"
     /\ \A c \in 1..N :
          (PollNext /\ OnlyItemIn(c)) =>
             result' = Poll("Some", multiplex_single(receivers[c].p, Head(Queue(c))))]_vars

\* The only request ever pushed arrived after a pending scan and was produced.
C7_Witness ==
  /\ N >= 2
  /\ pushes = 1
  /\ next_poll > N
  /\ result.kind = "Some"
  /\ consumer = "running"

\* ------------------------------------------------------------------- C8
\* The poll_next step dequeues the head of pooled channel c.
Dequeues(c) == Queue(c) # << >> /\ receivers'[c].rx.queue = Tail(Queue(c))

\* The last poll_next call returned a decode error.
LastWasError == result.kind = "Some" /\ ~result.item.ok

\* C8: a malformed payload dequeued from a pooled channel makes poll_next return
\* an error carrying that request's peer; the stream is not ended by it, and a
\* well-formed payload on a different pooled channel is delivered afterwards.
C8_DecodeErrorIsLocal ==
  [][PollNext =>
       /\ \A c \in 1..N :
            (Dequeues(c) /\ ~ReqDecode(Head(Queue(c)).payload).ok) =>
               /\ result'.kind = "Some"
               /\ ~result'.item.ok
               /\ result'.item.peer = Head(Queue(c)).peer
               /\ AllOpen => ~is_terminated(receivers', next_poll')
       /\ (LastWasError /\ AllOpen) =>
            /\ result'.kind # "None"
            /\ \A d \in 1..N :
                 (/\ OnlyItemIn(d)
                  /\ d # ((next_poll - 1) % N) + 1
                  /\ ReqDecode(Head(Queue(d)).payload).ok) =>
                    /\ result'.kind = "Some"
                    /\ result'.item.ok
                    /\ result'.item.protocol = receivers[d].p
                    /\ result'.item.peer = Head(Queue(d)).peer
                    /\ result'.item.pending_response = Head(Queue(d)).pending_response]_vars

\* A decode error attributed to peer 2 was returned, no channel is closed, the
\* stream is not terminated and a well-formed request waits on another channel.
C8_Witness ==
  /\ N >= 2
  /\ AllOpen
  /\ ~is_terminated(receivers, next_poll)
  /\ LastWasError
  /\ result.item.peer = 2
  /\ \E d \in 1..N :
       /\ d # ((next_poll - 1) % N) + 1
       /\ OnlyItemIn(d)
       /\ ReqDecode(Head(Queue(d)).payload).ok

\* ------------------------------------------------------------------- C9
Range(f) == {f[i] : i \in DOMAIN f}

\* C9: for each withheld receiver the first take call returns the receiver and
\* every later call returns nothing; whether one can still be taken depends on
\* its own calls only.
C9_TakeOnce ==
  /\ taken.statement_fetching.calls = 1 => taken.statement_fetching.ret = "StatementFetching"
  /\ taken.statement_fetching.calls >= 2 => taken.statement_fetching.ret = "None"
  /\ taken.dispute_sending.calls = 1 => taken.dispute_sending.ret = "DisputeSending"
  /\ taken.dispute_sending.calls >= 2 => taken.dispute_sending.ret = "None"
  /\ statement_fetching.some <=> (pc = "running" /\ taken.statement_fetching.calls = 0)
  /\ dispute_sending.some <=> (pc = "running" /\ taken.dispute_sending.calls = 0)

\* The statement-fetching receiver was asked for twice and the dispute-sending
\* receiver once, after the first was already gone.
C9_Witness ==
  /\ taken.statement_fetching.calls = 2
  /\ taken.statement_fetching.ret = "None"
  /\ taken.dispute_sending.calls = 1
  /\ taken.dispute_sending.ret = "DisputeSending"

\* ------------------------------------------------------------------ C10
\* C10: for an enumeration holding both withheld protocols, new() succeeds and
\* returns exactly one configuration per protocol, in enumeration order.
C10_ConfigPerProtocol ==
  (pc # "start" /\ {"StatementFetching", "DisputeSending"} \subseteq Range(enumeration)) =>
     /\ pc = "running"
     /\ Len(cfgs) = Len(enumeration)
     /\ \A i \in 1..Len(enumeration) : cfgs[i].name = enumeration[i]

\* Construction succeeded on an enumeration that lists DisputeSending before
\* StatementFetching, with pooled protocols around them.
C10_Witness ==
  /\ pc = "running"
  /\ Len(enumeration) = 4
  /\ enumeration[1] = "DisputeSending"
  /\ enumeration[3] = "StatementFetching"
  /\ Len(cfgs) = 4

\* ------------------------------------------------------------------ C11
IsWithheld(p) == p \in {Withheld[i] : i \in 1..Len(Withheld)}

\* The protocol tags of the pool, in pool order.
PoolTags == [c \in 1..N |-> receivers[c].p]

\* C11: in every state after construction the pool is the enumeration with the
\* two withheld tags removed, in enumeration order, each tag paired with the
\* receiver of its own channel; polling, closing and taking never change that.
C11_PoolIsEnumerationWithoutWithheld ==
  pc = "running" =>
    /\ PoolTags = SelectSeq(enumeration, LAMBDA p : ~IsWithheld(p))
    /\ \A c \in 1..N : receivers[c].rx.chan = receivers[c].p

\* Both withheld tags stood before the pooled ones; the pool was polled, a
\* pooled channel was closed and a withheld receiver was taken.
C11_Witness ==
  /\ pc = "running"
  /\ Len(enumeration) = 4
  /\ IsWithheld(enumeration[1])
  /\ IsWithheld(enumeration[2])
  /\ next_poll > 0
  /\ ended
  /\ taken.dispute_sending.calls = 1

\* ------------------------------------------------------------------ C12
\* C12: the decode step never sees a withheld protocol: no poll_next result
\* comes from an unreachable branch of multiplex_single or carries a withheld
\* tag, also while requests are pushed to the withheld channels.
C12_WithheldNeverDecoded ==
  /\ ~result.item.unreachable
  /\ ~IsWithheld(result.item.protocol)

\* Both withheld channels hold requests and the merge has produced a message.
C12_Witness ==
  /\ statement_fetching.rx.queue # << >>
  /\ dispute_sending.rx.queue # << >>
  /\ result.kind = "Some"
  /\ result.item.ok

\* ------------------------------------------------------------------ C13
\* C13: with an empty pool is_terminated() is true and every poll_next call
\* returns end-of-stream at once, without suspending and without moving the
\* cursor.
C13_EmptyPoolEnds ==
  [][(N = 0 /\ PollNext) =>
       /\ is_terminated(receivers, next_poll)
       /\ result'.kind = "None"
       /\ consumer' = "running"
       /\ next_poll' = next_poll
       /\ is_terminated(receivers', next_poll')]_vars

\* A poll_next call on an empty pool has returned.
C13_Witness ==
  /\ pc = "running"
  /\ N = 0
  /\ result.kind = "None"
  /\ ended

\* ------------------------------------------------------------------ C14
AllClosed == \A c \in 1..N : ~receivers[c].rx.open

\* C14: poll_next never polls a receiver that has reported termination (no
\* panic); once all senders are gone a call never suspends, it returns a still
\* buffered item or end-of-stream, end-of-stream whenever nothing is buffered,
\* and is_terminated() is true after every end-of-stream.
C14_ExhaustionSafety ==
  [][PollNext =>
       /\ result'.kind # "Panic"
       /\ AllClosed =>
            /\ result'.kind \in {"Some", "None"}
            /\ (\A c \in 1..N : Queue(c) = << >>) => result'.kind = "None"
            /\ result'.kind = "None" => is_terminated(receivers', next_poll')]_vars

\* All senders are gone, every pooled receiver of a pool of two has reported
\* termination and poll_next has answered end-of-stream.
C14_Witness ==
  /\ N >= 2
  /\ \A c \in 1..N : RxIsTerminated(receivers[c].rx)
  /\ result.kind = "None"
  /\ is_terminated(receivers, next_poll)

\* ------------------------------------------------------------------ C15
MissingWithheld == \E i \in 1..Len(Withheld) : Withheld[i] \notin Range(enumeration)

\* C15: when StatementFetching or DisputeSending is absent from the
\* enumeration, new() panics and returns neither a multiplexer nor a
\* configuration list; when it returns, each withheld slot was filled with the
\* receiver of its own tag.
C15_MissingWithheldIsFatal ==
  pc # "start" =>
    /\ MissingWithheld =>
         /\ pc = "panicked"
         /\ cfgs = << >>
         /\ receivers = << >>
         /\ ~statement_fetching.some
         /\ ~dispute_sending.some
    /\ pc = "running" =>
         /\ statement_fetching.some => statement_fetching.rx.chan = "StatementFetching"
         /\ dispute_sending.some => dispute_sending.rx.chan = "DisputeSending"

\* new() panicked on an enumeration of four that has the first withheld tag
\* and lacks the second.
C15_Witness ==
  /\ pc = "panicked"
  /\ Len(enumeration) = 4
  /\ "StatementFetching" \in Range(enumeration)
  /\ "DisputeSending" \notin Range(enumeration)

\* ------------------------------------------------------------------ C16
\* C16: while a pooled channel is closed with nothing buffered, no poll_next
\* call suspends, and at most N-1 items are produced before the call that
\* returns end-of-stream, whatever the other channels hold and wherever the
\* cursor stands.
C16_ClosureEndsWithinPool ==
  [][(PollNext /\ \E c \in 1..N : ClosedEmpty(c)) =>
       /\ result'.kind \in {"Some", "None"}
       /\ \A c \in 1..N : ClosedEmpty(c) => skipped'[c] <= N - 1]_vars

\* The closed and drained channel was passed over N-1 times and the stream
\* then ended, with the cursor past that channel when it closed.
C16_Witness ==
  /\ N >= 2
  /\ result.kind = "None"
  /\ \E c \in 1..N : ClosedEmpty(c) /\ skipped[c] = N - 1 /\ pushed[c] > 0

\* ------------------------------------------------------------------ C17
\* The pooled channel visited at step k (from 0) of a scan that starts now.
ScanAt(k) == ((next_poll + k) % N) + 1

\* The first k channels of the scan are live, open and empty: each poll of
\* them is pending.
PendingUpTo(k) ==
  \A j \in 0..(k - 1) :
    /\ receivers[ScanAt(j)].rx.open
    /\ receivers[ScanAt(j)].rx.inner
    /\ Queue(ScanAt(j)) = << >>

\* C17: when the scan of a poll_next call reaches a channel that is closed with
\* nothing buffered before it found a ready item, the call returns
\* end-of-stream, dequeues nothing, leaves the channels later in the scan
\* untouched and does not move the cursor.
C17_FailFastOnClosure ==
  [][\A k \in 0..(N - 1) :
       (PollNext /\ PendingUpTo(k) /\ ClosedEmpty(ScanAt(k))) =>
         /\ result'.kind = "None"
         /\ \A c \in 1..N : receivers'[c].rx.queue = Queue(c)
         /\ \A j \in (k + 1)..(N - 1) : receivers'[ScanAt(j)] = receivers[ScanAt(j)]
         /\ next_poll' = next_poll]_vars

\* The stream ended on the closed channel at the cursor while an open channel
\* later in the scan keeps a ready item and was not polled.
C17_Witness ==
  /\ N >= 2
  /\ result.kind = "None"
  /\ ClosedEmpty(AtCursor)
  /\ \E d \in 1..N \ {AtCursor} :
       /\ Queue(d) # << >>
       /\ receivers[d].rx.open
       /\ ~receivers[d].rx.waker

\* ------------------------------------------------------------------ C18
\* C18: after a poll_next call that returns an item (decoded or a decode
\* error) dequeued from the pooled channel at position j = c - 1, next_poll
\* modulo N is (j + 1) mod N.
C18_CursorPastProducer ==
  [][\A c \in 1..N :
       (PollNext /\ result'.kind = "Some" /\ Dequeues(c)) => next_poll' % N = c % N]_vars

\* The last channel of a pool of two or more produced an item and the cursor
\* wrapped to the first position.
C18_Witness ==
  /\ N >= 2
  /\ result.kind = "Some"
  /\ next_poll >= N
  /\ next_poll % N = 0
  /\ pushed[N] > 0

\* ------------------------------------------------------------------ C19
\* C19: a poll_next call that returns end-of-stream leaves next_poll at the
\* value it had when the call began, whether the channel at the cursor was
\* already terminated or a channel visited later reported closure.
C19_EndKeepsCursor ==
  [][(PollNext /\ result'.kind = "None") => next_poll' = next_poll]_vars

\* End-of-stream was reported by a channel other than the one at the cursor,
\* after the cursor had moved.
C19_Witness ==
  /\ N >= 2
  /\ result.kind = "None"
  /\ next_poll > 0
  /\ ~RxIsTerminated(receivers[AtCursor].rx)
  /\ \E d \in 1..N : RxIsTerminated(receivers[d].rx)

\* ------------------------------------------------------------------ C20
\* C20: a poll_next call that returns pending leaves next_poll modulo N
\* unchanged.
C20_PendingKeepsPosition ==
  [][(PollNext /\ result'.kind = "Pending") => next_poll' % N = next_poll % N]_vars

\* The consumer is suspended after a full scan that started at the second
\* position of the pool.
C20_Witness ==
  /\ N >= 2
  /\ result.kind = "Pending"
  /\ consumer = "suspended"
  /\ next_poll % N = 1
  /\ \A c \in 1..N : receivers[c].rx.waker

\* ------------------------------------------------------------------ C21
\* The pooled channels whose buffered contents the step changes.
Touched == {c \in 1..N : receivers'[c].rx.queue # Queue(c)}

\* C21: a poll_next call that returns an item (decoded or a decode error)
\* dequeues the head of exactly one pooled channel; a call that returns pending
\* or end-of-stream dequeues nothing; every other pooled queue is unchanged.
C21_AtMostOneDequeue ==
  [][PollNext =>
       /\ result'.kind = "Some" =>
            \E c \in 1..N : Dequeues(c) /\ Touched = {c}
       /\ result'.kind # "Some" => Touched = {}]_vars

\* A decode error was produced from one channel while another pooled channel
\* keeps two buffered requests.
C21_Witness ==
  /\ N >= 2
  /\ LastWasError
  /\ \E d \in 1..N : Len(Queue(d)) = 2 /\ pushed[d] = 2

\* ------------------------------------------------------------------ C22
\* Pooled channel c buffers the requests pushed to it and not yet dequeued, in
\* push order: the reply sinks <<c, k>> with consecutive k up to pushed[c].
InPushOrder(c) ==
  \A k \in 1..Len(Queue(c)) :
    Queue(c)[k].pending_response = <<c, pushed[c] - Len(Queue(c)) + k>>

\* C22: every request leaves its pooled channel as the oldest one buffered
\* there, and the call that dequeues it returns it: decoded, tagged with that
\* channel's protocol and carrying its peer, request and reply sink, or as a
\* decode error carrying its peer.
C22_NoLossDupReorder ==
  /\ [](\A c \in 1..N : InPushOrder(c))
  /\ [][PollNext =>
          \A c \in Touched :
            LET v == Head(Queue(c))
                item == result'.item
            IN /\ receivers'[c].rx.queue = Tail(Queue(c))
               /\ result'.kind = "Some"
               /\ IF v.payload # << >>
                    THEN /\ item.ok
                         /\ item.protocol = receivers[c].p
                         /\ item.peer = v.peer
                         /\ item.req = v.payload[1]
                         /\ item.pending_response = v.pending_response
                    ELSE /\ ~item.ok
                         /\ item.peer = v.peer]_vars

\* The second request pushed to the second pooled channel was produced while
\* a third one waits behind it.
C22_Witness ==
  /\ N >= 2
  /\ result.kind = "Some"
  /\ result.item.ok
  /\ result.item.pending_response = <<2, 2>>
  /\ Len(Queue(2)) = 1

\* ------------------------------------------------------------------ C23
\* C23: the reply sink of a dequeued request leaves the pool and has one
\* fate: a successful decode puts it, with the origin peer, into the produced
\* message; a failed decode drops it, and the produced error carries the
\* origin peer and the decode error and nothing else.
C23_ReplySinkFate ==
  [][PollNext =>
       \A c \in Touched :
         LET v == Head(Queue(c))
             item == result'.item
         IN /\ \A d \in 1..N : \A k \in 1..Len(receivers'[d].rx.queue) :
                 receivers'[d].rx.queue[k].pending_response # v.pending_response
            /\ item.ok <=> v.payload # << >>
            /\ item.ok => /\ item.pending_response = v.pending_response
                          /\ item.peer = v.peer
            /\ ~item.ok => /\ item.pending_response = NoItem.pending_response
                           /\ item.peer = v.peer
                           /\ item.error = "eof"
                           /\ item.protocol = NoItem.protocol
                           /\ item.req = NoItem.req]_vars

\* The only request pushed came from the second peer and failed to decode:
\* its reply sink is neither in the pool nor in the produced error.
C23_Witness ==
  /\ N >= 1
  /\ pushes = 1
  /\ \A c \in 1..N : Queue(c) = << >>
  /\ LastWasError
  /\ result.item.peer = 2
  /\ result.item.pending_response = NoItem.pending_response

\* ------------------------------------------------------------------ C24
\* The step is a push to, or the closure of, a withheld channel.
WithheldEvent ==
  \E i \in 1..Len(Withheld) :
    PushWithheld(Withheld[i], 2, << >>) \/ CloseWithheld(Withheld[i])

\* C24: poll_next leaves both withheld slots as they are; a push to or the
\* closure of a withheld channel changes neither what poll_next would return
\* and do nor is_terminated(); taking a withheld receiver leaves pool and
\* cursor unchanged.
C24_WithheldIndependent ==
  [][/\ PollNext =>
          /\ statement_fetching' = statement_fetching
          /\ dispute_sending' = dispute_sending
     /\ WithheldEvent =>
          /\ poll_next(receivers', next_poll') = poll_next(receivers, next_poll)
          /\ is_terminated(receivers', next_poll') = is_terminated(receivers, next_poll)
     /\ (GetStatementFetching \/ GetDisputeSending) =>
          /\ receivers' = receivers
          /\ next_poll' = next_poll]_vars

\* An item was produced while one withheld receiver, still in its slot, is
\* closed with a request buffered, and the other has been taken.
C24_Witness ==
  /\ N >= 2
  /\ result.kind = "Some"
  /\ statement_fetching.some
  /\ ~statement_fetching.rx.open
  /\ statement_fetching.rx.queue # << >>
  /\ taken.dispute_sending.ret = "DisputeSending"

\* ------------------------------------------------------------------ C25
\* C25: once is_terminated() is true it is true after every further step, a
\* poll_next call, a push or a closure.
C25_TerminatedIsMonotone ==
  [][is_terminated(receivers, next_poll) => is_terminated(receivers', next_poll')]_vars

\* is_terminated() is true after an end-of-stream although every other pooled
\* channel is open and has two requests buffered.
C25_Witness ==
  /\ N >= 2
  /\ ended
  /\ is_terminated(receivers, next_poll)
  /\ \A d \in 1..N \ {AtCursor} : receivers[d].rx.open /\ Len(Queue(d)) >= 2

\* ------------------------------------------------------------------ C26
\* C26: a poll_next call made while is_terminated() is true returns
\* end-of-stream and changes neither a receiver (none is polled, nothing is
\* dequeued) nor the cursor, also when other pooled channels hold requests.
C26_TerminatedCallIsInert ==
  [][(PollNext /\ is_terminated(receivers, next_poll)) =>
       /\ result'.kind = "None"
       /\ receivers' = receivers
       /\ next_poll' = next_poll]_vars

\* After the cursor had moved, a call returned end-of-stream on the terminated
\* channel at the cursor while another channel holds a request and has no
\* waker registered.
C26_Witness ==
  /\ N >= 2
  /\ next_poll > 0
  /\ result.kind = "None"
  /\ RxIsTerminated(receivers[AtCursor].rx)
  /\ \E d \in 1..N : Queue(d) # << >> /\ ~receivers[d].rx.waker /\ receivers[d].rx.inner

\* ------------------------------------------------------------------ C27
\* The requests of pooled channel c that poll_next has dequeued so far.
Delivered(c) == pushed[c] - Len(Queue(c))

\* C27: with no pooled channel closed and a consumer that polls whenever it is
\* runnable, again and again every request pushed so far to any pooled channel
\* has been produced, whatever is pushed concurrently, as long as the cursor
\* stays below the bound up to which poll_next is called.
C27_EventualDelivery ==
  []<>((\A c \in 1..N : Delivered(c) = pushed[c]) \/ next_poll >= MaxCursor)

\* A request pushed to the first channel of a pool of two or more while the
\* consumer was suspended has been produced, with the waker still registered
\* on another channel and the cursor below the bound.
C27_Witness ==
  /\ N >= 2
  /\ pushed[1] >= 1
  /\ Delivered(1) = pushed[1]
  /\ result.kind = "Some"
  /\ \E c \in 2..N : receivers[c].rx.waker
  /\ next_poll < MaxCursor

\* ------------------------------------------------------------------ C28
\* C28: a poll_next call polls at most N receivers, the first `polled` ones of
\* the cyclic scan from next_poll % N and no other, each once; unless it
\* returns end-of-stream, next_poll grows by exactly that number, and it is
\* never lowered.
C28_BoundedScan ==
  [][PollNext =>
       LET r == poll_next(receivers, next_poll)
           scanned == {ScanAt(k) : k \in 0..(r.polled - 1)}
       IN /\ r.polled \in 0..N
          /\ N = 0 => r.polled = 0
          /\ Cardinality(scanned) = r.polled
          /\ \A c \in scanned : receivers'[c].rx = RxPollNext(receivers[c].rx).rx
          /\ \A c \in (1..N) \ scanned : receivers'[c] = receivers[c]
          /\ result'.kind # "None" => next_poll' = next_poll + r.polled
          /\ next_poll' >= next_poll]_vars

\* A call that started with the cursor at or beyond the pool size, on the last
\* position of the pool, wrapped around, polled every receiver and suspended.
C28_Witness ==
  /\ N >= 2
  /\ result.kind = "Pending"
  /\ next_poll >= 2 * N
  /\ next_poll % N = N - 1
  /\ \A c \in 1..N : receivers[c].rx.waker

====
